---- MODULE Spec2Model ----
(***************************************************************************)
(* Model of app.py, the Rotten Tomatoes trailer add-on: the view function  *)
(* get_trailer behind flask-caching's @cache.cached, and its three         *)
(* outbound calls (TMDB find, Rotten Tomatoes search, the /videos page).   *)
(*                                                                         *)
(* Python strings whose characters matter (ids, titles, dates, years) are  *)
(* sequences of one-character strings; None is the one-element sequence    *)
(* NoneStr, which holds no character of any alphabet used here.            *)
(***************************************************************************)
EXTENDS Integers, Sequences, FiniteSets, TLC

VARIABLES
    conn,    \* server: per request slot, the request and how far it got
    cache,   \* server: the redis store of flask-caching, key -> entry
    now,     \* server: wall-clock seconds
    ticks,   \* server: number of clock advances so far (bounds the run)
    order,   \* server: slots in order of completion (history)
    preq,    \* pipeline: the request, [type, id]
    up,      \* pipeline: the upstream answers received so far
    pout     \* pipeline: where the view function stands, its response and calls

vars == <<conn, cache, now, ticks, order, preq, up, pout>>

(***************************** bounds *************************************)
NReq == 2          \* request slots of the server specification
MaxTicks == 2      \* clock advances of the server specification
MaxRows == 2       \* rows of a search-results page
MaxVideos == 2     \* entries of a videos payload

TTL == 2592000     \* @cache.cached(timeout=2592000)

(***************************** strings ************************************)
NoneStr == <<"<None>">>

\* Python truthiness of an optional string: None and "" are falsy.
Truthy(s) == s # NoneStr /\ s # <<>>

LowerChar(c) ==
    CASE c = "A" -> "a"
      [] c = "B" -> "b"
      [] OTHER -> c

\* str.lower()
Lower(s) == [i \in DOMAIN s |-> LowerChar(s[i])]

\* needle in hay (Python substring test; "" is in every string)
Contains(hay, needle) ==
    \E i \in 0..(Len(hay) - Len(needle)) :
        SubSeq(hay, i + 1, i + Len(needle)) = needle

\* str.startswith
StartsWith(s, p) == Len(s) >= Len(p) /\ SubSeq(s, 1, Len(p)) = p

SetMin(S) == CHOOSE x \in S : \A y \in S : x <= y
SetMax(S) == CHOOSE x \in S : \A y \in S : x >= y

Dots(s) == {i \in 1..Len(s) : s[i] = "."}

\* a variant that strips nothing
SplitNone(s) == s

\* media_id.split(".")[0]: everything before the first dot
SplitFirst(s) == IF Dots(s) = {} THEN s ELSE SubSeq(s, 1, SetMin(Dots(s)) - 1)

TT == <<"t", "t">>

(***************************** responses **********************************)
\* flask.jsonify({"error": msg}), status
JsonError(msg, status) ==
    [status |-> status, ctype |-> "json", error |-> msg, meta |-> <<>>]

\* flask.jsonify(provide): status 200
JsonMeta(m) ==
    [status |-> 200, ctype |-> "json", error |-> "", meta |-> <<m>>]

\* What the client gets when the view raises: Flask's 500 page, not JSON.
InternalServerError ==
    [status |-> 500, ctype |-> "html", error |-> "", meta |-> <<>>]

NoResp == [status |-> 0, ctype |-> "", error |-> "", meta |-> <<>>]

Call(to, arg) == [to |-> to, arg |-> arg]

\* The three ways the view function stands after the answers in hand:
\* blocked in an outbound call, returned a response, or raised.
Await(calls) == [kind |-> "await", resp |-> NoResp, calls |-> calls]
Return(resp, calls) == [kind |-> "return", resp |-> resp, calls |-> calls]
Raise(calls) == [kind |-> "raise", resp |-> InternalServerError, calls |-> calls]

(*********************** fetch_rotten_tomatoes ****************************)
\* One search-page-media-row -> one result, or a raise when find() gave None.
RowOk(row) == row.anchors

ParseRow(row) == [title |-> row.title, link |-> row.href, release_year |-> row.year]

\* ans = [ok, rows]: ok is raise_for_status passing; the result is
\* <<results>> or <<>> when the function raised.
FetchRottenTomatoes(ans) ==
    IF ~ans.ok THEN <<>>
    ELSE IF \E i \in DOMAIN ans.rows : ~RowOk(ans.rows[i]) THEN <<>>
    ELSE <<[i \in DOMAIN ans.rows |-> ParseRow(ans.rows[i])]>>

(*************************** fetch_rt_videos ******************************)
\* ans = [script, videos]; the result is <<json_object>> or <<>> for None
FetchRtVideos(ans) ==
    IF ans.script = "ok" THEN <<ans.videos>> ELSE <<>>

(****************************** get_trailer *******************************)
Missing == "<missing>"

\* a variant that matches on the year alone
TitleMatchesYearOnly(result, title, release_date) ==
    /\ Truthy(result.release_year)
    /\ Truthy(release_date)
    /\ Contains(release_date, result.release_year)

\* the loop condition of the title match (both ifs)
TitleMatches(result, title, release_date) ==
    /\ Truthy(result.release_year)
    /\ Truthy(release_date)
    /\ Contains(release_date, result.release_year)
    /\ Lower(result.title) = Lower(title)

\* for result in rtResults: ... break   (0: rtResult stays None)
MatchIndex(rtResults, title, release_date) ==
    LET hits == {i \in DOMAIN rtResults :
                    TitleMatches(rtResults[i], title, release_date)}
    IN IF hits = {} THEN 0 ELSE SetMin(hits)

\* a variant that keeps everything but clips
IsTrailerNotClip(video) == video.videoType # "CLIP"

\* video.get("videoType", "") == "TRAILER"
IsTrailer(video) ==
    (IF video.videoType = Missing THEN "" ELSE video.videoType) = "TRAILER"

RECURSIVE FilterTrailers(_)
FilterTrailers(videos) ==
    IF videos = <<>> THEN <<>>
    ELSE IF IsTrailer(Head(videos))
         THEN <<Head(videos)>> \o FilterTrailers(Tail(videos))
         ELSE FilterTrailers(Tail(videos))

FormatTrailer(trailer) ==
    [trailers |-> trailer.file, provider |-> trailer.title,
     thumbnail |-> trailer.thumbnail]

\* trailer["file"] etc. raise KeyError on a missing key
FormatRaises(trailers) ==
    \E i \in DOMAIN trailers :
        Missing \in {trailers[i].file, trailers[i].title, trailers[i].thumbnail}

\* rtResult['link'] + "/videos"
VideosUrl(link) == link \o <<"/", "v", "i", "d", "e", "o", "s">>

\* lines 147-176: after the videos page was fetched
AfterVideos(media_type, media_id, title, videos, calls) ==
    IF videos = <<>> \/ videos[1] = <<>>
    THEN Return(JsonError("No videos found on Rotten Tomatoes", 404), calls)
    ELSE LET trailers == FilterTrailers(videos[1]) IN
         IF FormatRaises(trailers) THEN Raise(calls)
         ELSE Return(JsonMeta([id |-> media_id, type |-> media_type,
                               name |-> title,
                               links |-> [i \in DOMAIN trailers |->
                                             FormatTrailer(trailers[i])]]),
                     calls)

\* lines 134-147: after TMDB gave a title
AfterTmdb(media_type, media_id, title, release_date, u, calls) ==
    LET c2 == Append(calls, Call("search", title)) IN
    IF u.rt = <<>> THEN Await(c2)
    ELSE LET fetched == FetchRottenTomatoes(u.rt[1]) IN
         IF fetched = <<>> THEN Raise(c2)
         ELSE LET rtResults == fetched[1]
                  m == MatchIndex(rtResults, title, release_date)
              IN IF m = 0
                 THEN Return(JsonError("No matching result found in Rotten Tomatoes",
                                       404), c2)
                 ELSE LET c3 == Append(c2, Call("videos",
                                                VideosUrl(rtResults[m].link)))
                      IN IF u.vid = <<>> THEN Await(c3)
                         ELSE AfterVideos(media_type, media_id, title,
                                          FetchRtVideos(u.vid[1]), c3)

\* a variant that lets "tv" through
SupportedTypeLax(media_type) == media_type \in {"movie", "series", "tv"}

\* media_type in ['movie', 'series']
SupportedType(media_type) == media_type \in {"movie", "series"}

\* a variant that takes only server errors for failures
TmdbFailedOn5xx(status) == status >= 500

\* response.status_code != 200
TmdbFailed(status) == status # 200

ValidId(media_id) == StartsWith(media_id, TT)

\* The view function, given the upstream answers u = [tmdb, rt, vid] (each <<>>
\* while not received, else <<answer>>).
GetTrailer(media_type, raw_id, u) ==
    IF ~SupportedType(media_type)
    THEN Return(JsonError("Unsupported media type", 400), <<>>)
    ELSE LET media_id == SplitFirst(raw_id) IN
         IF ~ValidId(media_id)
         THEN Return(JsonError("Invalid media ID format", 400), <<>>)
         ELSE LET c1 == <<Call("tmdb", media_id)>> IN
              IF u.tmdb = <<>> THEN Await(c1)
              ELSE IF TmdbFailed(u.tmdb[1].status)
              THEN Return(JsonError("Failed to fetch data from TMDB", 500), c1)
              ELSE LET data == u.tmdb[1].results
                       tmdb == IF data # <<>> THEN data[1].id ELSE 0
                   IN IF tmdb = 0
                      THEN Return(JsonError("Media not found in TMDB", 404), c1)
                      ELSE AfterTmdb(media_type, media_id, data[1].title,
                                     data[1].release_date, u, c1)

(***************************** input domains ******************************)
SeqsUpTo(S, n) == UNION {[1..k -> S] : k \in 0..n}

Types == {"movie", "series", "tv"}
Ids == { <<"t","t","1">>,
         <<"t","t","1",".","j">>,
         <<"t","t","1",".","2",".","j">>,
         <<"x","1",".","j">>,
         <<"t",".","t","t">> }

IdTT1 == <<"t","t","1">>
IdTT1Json == <<"t","t","1",".","j">>
IdBad == <<"x","1",".","j">>
\* the paths requested: every id as a movie, and the other types on a few
Requests ==
    [type : {"movie"}, id : Ids]
    \cup [type : {"series"}, id : {IdTT1Json, IdBad}]
    \cup [type : {"tv"}, id : {IdTT1, IdBad}]

Date2010 == <<"2","0","1","0","-","0","7">>
TitleAb == <<"A","b">>

Movies == { [id |-> i, title |-> TitleAb, release_date |-> d] :
               i \in {0, 7}, d \in {Date2010, <<>>} }
TmdbAnswers ==
    { [status |-> 401, results |-> <<>>], [status |-> 200, results |-> <<>>] }
    \cup { [status |-> 200, results |-> <<m>>] : m \in Movies }
    \cup { [status |-> 200,
            results |-> <<[id |-> 0, title |-> TitleAb, release_date |-> <<>>],
                          [id |-> 7, title |-> TitleAb, release_date |-> Date2010]>>] }

Years == { NoneStr, <<>>, <<"2","0","1","0">>, <<"0","7">>, <<"1","9","9","9">> }
CandTitles == { <<"a","B">>, <<"A","b","2">> }
RowShapes == { [anchors |-> TRUE, title |-> t, year |-> y] :
                  t \in CandTitles, y \in Years }
             \cup { [anchors |-> FALSE, title |-> <<>>, year |-> NoneStr] }
Href(i) == <<"/", "m", "/", CHOOSE c \in {"1","2","3","4"} :
                               c = (<<"1","2","3","4">>)[i]>>
WithHref(shapes) ==
    [i \in DOMAIN shapes |->
        [anchors |-> shapes[i].anchors, title |-> shapes[i].title,
         href |-> Href(i), year |-> shapes[i].year]]
RtAnswers ==
    { [ok |-> FALSE, rows |-> <<>>] }
    \cup { [ok |-> TRUE, rows |-> WithHref(s)] : s \in SeqsUpTo(RowShapes, MaxRows) }

VideoSet ==
    { [videoType |-> "TRAILER", file |-> f, title |-> "YT", thumbnail |-> "th"] :
         f \in {"f1", "f2"} }
    \cup { [videoType |-> "CLIP", file |-> "f1", title |-> "YT", thumbnail |-> "th"],
           [videoType |-> "TRAILER", file |-> Missing, title |-> "YT", thumbnail |-> "th"],
           [videoType |-> Missing, file |-> "f1", title |-> "YT", thumbnail |-> "th"] }
VidAnswers ==
    { [script |-> "absent", videos |-> <<>>], [script |-> "badjson", videos |-> <<>>] }
    \cup { [script |-> "ok", videos |-> v] : v \in SeqsUpTo(VideoSet, MaxVideos) }

NoAnswers == [tmdb |-> <<>>, rt |-> <<>>, vid |-> <<>>]

(************************ server state at rest ****************************)
Reqs == 1..NReq
IdleConn == [pc |-> "idle", type |-> "", id |-> <<>>, args |-> <<>>,
             resp |-> NoResp, calls |-> <<>>, hit |-> FALSE, entryAt |-> 0]
ServerInit ==
    /\ conn = [r \in Reqs |-> IdleConn]
    /\ cache = {}
    /\ now = 0
    /\ ticks = 0
    /\ order = <<>>
ServerUnchanged == UNCHANGED <<conn, cache, now, ticks, order>>
PipeInit ==
    /\ preq = [type |-> "movie", id |-> IdTT1]
    /\ up = NoAnswers
    /\ pout = [kind |-> "off", resp |-> NoResp, calls |-> <<>>]
PipeUnchanged == UNCHANGED <<preq, up, pout>>

(************************* @cache.cached(...) *****************************)
\* query_string=True: the key is request.path and the hash of the sorted
\* query arguments (arguments are numbered; a query is a sequence of them).
MakeCacheKey(type, id, args) ==
    [type |-> type, id |-> id, args |-> SortSeq(args, LAMBDA x, y : x < y)]

KeyOf(c) == MakeCacheKey(c.type, c.id, c.args)

\* a variant whose entries are gone at the first clock advance
ExpiredAtOnce(e, t) == t > e.at

\* timeout=2592000: an entry written at e.at is gone from e.at + TTL on
Expired(e, t) == t >= e.at + TTL

\* cache.get(cache_key): <<entry>> or <<>>
CacheGet(key) ==
    LET es == {e \in cache : e.key = key} IN
    IF es = {} THEN <<>> ELSE <<CHOOSE e \in es : TRUE>>

\* a variant that writes into an emptied store
CacheSetFlush(key, rv) == {[key |-> key, rv |-> rv, at |-> now]}

\* cache.set(cache_key, rv, timeout=...): replaces the key's entry
CacheSet(key, rv) ==
    {e \in cache : e.key # key} \cup {[key |-> key, rv |-> rv, at |-> now]}

(************************** server specification **************************)
\* the requests and upstream answers the server specification draws from
Queries == { <<>>, <<2, 1>> }
SrvPaths == { [type |-> "movie", id |-> IdTT1Json],
              [type |-> "tv", id |-> IdTT1] }
MovieAb == [id |-> 7, title |-> TitleAb, release_date |-> Date2010]
SrvTmdb == { [status |-> 401, results |-> <<>>],
             [status |-> 200, results |-> <<MovieAb>>] }
SrvRt == { [ok |-> FALSE, rows |-> <<>>],
           [ok |-> TRUE,
            rows |-> WithHref(<<[anchors |-> TRUE, title |-> <<"a","B">>,
                                 year |-> <<"2","0","1","0">>]>>)] }
SrvVid == { [script |-> "ok", videos |-> <<v>>] :
              v \in {x \in VideoSet : x.file # Missing /\ x.videoType = "TRAILER"} }

\* A request arrives at slot r (slots are taken in arrival order) and the
\* decorator looks its key up: a hit is answered at once, a miss goes on to
\* the view function.
Receive(r) ==
    /\ conn[r].pc = "idle"
    /\ \A q \in Reqs : q < r => conn[q].pc # "idle"
    /\ \E path \in SrvPaths, args \in Queries :
          LET found == CacheGet(MakeCacheKey(path.type, path.id, args))
              c == [conn[r] EXCEPT !.type = path.type, !.id = path.id,
                                   !.args = args]
          IN IF found # <<>>
             THEN /\ conn' = [conn EXCEPT ![r] =
                                 [c EXCEPT !.pc = "done", !.resp = found[1].rv,
                                           !.hit = TRUE, !.entryAt = found[1].at]]
                  /\ order' = Append(order, r)
             ELSE /\ conn' = [conn EXCEPT ![r] = [c EXCEPT !.pc = "miss"]]
                  /\ order' = order
    /\ UNCHANGED <<cache, now, ticks>>
    /\ PipeUnchanged

\* The view function runs for a request that missed; what it returns is
\* stored under the key (response_filter is not set: every return value is),
\* an exception passes through the decorator and stores nothing.
Serve(r) ==
    /\ conn[r].pc = "miss"
    /\ \E tmdb \in SrvTmdb, rt \in SrvRt, vid \in SrvVid :
          LET res == GetTrailer(conn[r].type, conn[r].id,
                                [tmdb |-> <<tmdb>>, rt |-> <<rt>>, vid |-> <<vid>>])
          IN /\ conn' = [conn EXCEPT ![r] =
                            [@ EXCEPT !.pc = "done", !.resp = res.resp,
                                      !.calls = res.calls, !.entryAt = now]]
             /\ cache' = IF res.kind = "return"
                         THEN CacheSet(KeyOf(conn[r]), res.resp)
                         ELSE cache
    /\ order' = Append(order, r)
    /\ UNCHANGED <<now, ticks>>
    /\ PipeUnchanged

\* the clock advances by half a timeout: an entry outlives one advance, not two
TickStep == TTL \div 2

\* Time passes; redis drops the entries whose timeout is reached.
Tick ==
    /\ ticks < MaxTicks
    /\ now' = now + TickStep
    /\ cache' = {e \in cache : ~Expired(e, now + TickStep)}
    /\ ticks' = ticks + 1
    /\ UNCHANGED <<conn, order>>
    /\ PipeUnchanged

Init == ServerInit /\ PipeInit

Next == (\E r \in Reqs : Receive(r)) \/ (\E r \in Reqs : Serve(r)) \/ Tick

Spec == Init /\ [][Next]_vars

(************************** pipeline specification ************************)
\* One request through get_trailer, one outbound call at a time: pout is where
\* the view function stands (not entered, blocked in a call, returned, raised).
NotEntered == [kind |-> "new", resp |-> NoResp, calls |-> <<>>]

InitP ==
    /\ ServerInit
    /\ preq \in Requests
    /\ up = NoAnswers
    /\ pout = NotEntered

\* the call the view function is blocked in
Awaiting(to) ==
    /\ pout.kind = "await"
    /\ pout.calls[Len(pout.calls)].to = to

\* the view function is entered and runs to its first outbound call or return
Enter ==
    /\ pout.kind = "new"
    /\ pout' = GetTrailer(preq.type, preq.id, up)
    /\ UNCHANGED <<preq, up>>
    /\ ServerUnchanged

\* requests.get(url, headers=...) returns
AnswerTmdb ==
    /\ Awaiting("tmdb")
    /\ \E a \in TmdbAnswers : up' = [up EXCEPT !.tmdb = <<a>>]
    /\ pout' = GetTrailer(preq.type, preq.id, up')
    /\ UNCHANGED preq
    /\ ServerUnchanged

\* fetch_rotten_tomatoes(title) returns or raises
AnswerSearch ==
    /\ Awaiting("search")
    /\ \E a \in RtAnswers : up' = [up EXCEPT !.rt = <<a>>]
    /\ pout' = GetTrailer(preq.type, preq.id, up')
    /\ UNCHANGED preq
    /\ ServerUnchanged

\* fetch_rt_videos(link + "/videos") returns
AnswerVideos ==
    /\ Awaiting("videos")
    /\ \E a \in VidAnswers : up' = [up EXCEPT !.vid = <<a>>]
    /\ pout' = GetTrailer(preq.type, preq.id, up')
    /\ UNCHANGED preq
    /\ ServerUnchanged

NextP == Enter \/ AnswerTmdb \/ AnswerSearch \/ AnswerVideos

SpecPipe == InitP /\ [][NextP]_vars

(***************************************************************************)
(*                 Properties of the pipeline (SpecPipe)                   *)
(***************************************************************************)
Finished == pout.kind \in {"return", "raise"}

\* the calls made so far, by destination
CallsTo(to) == {i \in DOMAIN pout.calls : pout.calls[i].to = to}

\* "stripping a trailing extension such as .json": the id up to its last dot
StripTrailingExt(s) ==
    IF Dots(s) = {} THEN s ELSE SubSeq(s, 1, SetMax(Dots(s)) - 1)

\* the payload of the videos page, once fetched and parsed
GotVideos == up.vid # <<>> /\ up.vid[1].script = "ok"
PageVideos == up.vid[1].videos
TrailerIdx == {i \in DOMAIN PageVideos : PageVideos[i].videoType = "TRAILER"}

\* C2: a non-empty video list with no TRAILER entry gives 404 "No videos found
\* on Rotten Tomatoes", and no 200 response carries an empty links sequence.
C2_NoTrailersIs404 ==
    Finished =>
        /\ (GotVideos /\ PageVideos # <<>> /\ TrailerIdx = {})
              => pout.resp = JsonError("No videos found on Rotten Tomatoes", 404)
        /\ pout.resp.status = 200 => pout.resp.meta[1].links # <<>>

\* C4: every request that does not succeed ends with a JSON body
\* {"error": message} and status 400, 404 or 500; nothing crashes the request.
C4_FailuresAreJsonErrors ==
    (Finished /\ pout.resp.status # 200) =>
        /\ pout.kind = "return"
        /\ pout.resp.ctype = "json"
        /\ pout.resp.error # ""
        /\ pout.resp.status \in {400, 404, 500}

\* C5: an unsupported media type gives 400 "Unsupported media type" whatever
\* the media id, before the id check and before any outbound call.
C5_UnsupportedTypeFirst ==
    (pout.kind # "new" /\ preq.type \notin {"movie", "series"}) =>
        /\ pout.kind = "return"
        /\ pout.resp = JsonError("Unsupported media type", 400)
        /\ pout.calls = <<>>
        /\ up = NoAnswers

C5_Witness ==
    /\ pout.kind = "return"
    /\ preq.type = "tv"
    /\ ~StartsWith(StripTrailingExt(preq.id), TT)

BeforeFirstDot(s) ==
    LET n == CHOOSE n \in 0..Len(s) :
                 /\ \A i \in 1..n : s[i] # "."
                 /\ n = Len(s) \/ s[n + 1] = "."
    IN SubSeq(s, 1, n)

C7_TmdbShortCircuit ==
    up.tmdb # <<>> =>
        LET a == up.tmdb[1]
            stopped == /\ pout.kind = "return"
                       /\ CallsTo("search") = {} /\ CallsTo("videos") = {}
                       /\ up.rt = <<>> /\ up.vid = <<>>
        IN /\ (a.status = 200 /\ a.results = <<>>) =>
                 stopped /\ pout.resp = JsonError("Media not found in TMDB", 404)
           /\ a.status # 200 =>
                 stopped /\ pout.resp = JsonError("Failed to fetch data from TMDB", 500)

C7_Witness ==
    /\ up.tmdb = <<[status |-> 200, results |-> <<>>]>>
    /\ pout.kind = "return"
    /\ pout.resp.status = 404

\* C8: on success meta.links is exactly the TRAILER videos of the payload, in
\* payload order, each mapped file/title/thumbnail -> trailers/provider/thumbnail.
C8_LinksAreTheTrailers ==
    (pout.kind = "return" /\ pout.resp.status = 200) =>
        LET links == pout.resp.meta[1].links
            Rank(i) == Cardinality({j \in TrailerIdx : j <= i})
        IN /\ GotVideos
           /\ Len(links) = Cardinality(TrailerIdx)
           /\ \A i \in TrailerIdx :
                 /\ links[Rank(i)].trailers = PageVideos[i].file
                 /\ links[Rank(i)].provider = PageVideos[i].title
                 /\ links[Rank(i)].thumbnail = PageVideos[i].thumbnail

C8_Witness ==
    /\ pout.kind = "return" /\ pout.resp.status = 200
    /\ Len(pout.resp.meta[1].links) = 1
    /\ Len(PageVideos) = 2
    /\ PageVideos[1].videoType # "TRAILER"

\* C9, in the claim's words: the candidate's year is present and occurs in the
\* present release date, and the titles are equal up to letter case.
SameLetter(a, b) ==
    a = b \/ {a, b} \in { {"a", "A"}, {"b", "B"} }
EqualIgnoringCase(s, t) ==
    Len(s) = Len(t) /\ \A i \in 1..Len(s) : SameLetter(s[i], t[i])
OccursIn(y, d) ==
    \E i \in 1..Len(d), j \in 1..Len(d) :
        j - i + 1 = Len(y) /\ \A k \in 1..Len(y) : d[i + k - 1] = y[k]
Present(s) == s # NoneStr /\ s # <<>>
Satisfies(row, title, release_date) ==
    /\ Present(row.year) /\ Present(release_date)
    /\ OccursIn(row.year, release_date)
    /\ EqualIgnoringCase(row.title, title)

\* the search page was fetched and every row of it parsed
GotCandidates ==
    /\ up.tmdb # <<>> /\ up.tmdb[1].status = 200
    /\ up.tmdb[1].results # <<>> /\ up.tmdb[1].results[1].id # 0
    /\ up.rt # <<>> /\ up.rt[1].ok
    /\ \A i \in DOMAIN up.rt[1].rows : up.rt[1].rows[i].anchors

\* C9: the match is the first candidate, in search order, that satisfies both
\* conditions, its page is the one fetched; with no such candidate the response
\* is 404 "No matching result found in Rotten Tomatoes" and no page is fetched.
C9_FirstMatchWins ==
    GotCandidates =>
        LET rows == up.rt[1].rows
            movie == up.tmdb[1].results[1]
            sat == {i \in DOMAIN rows :
                       Satisfies(rows[i], movie.title, movie.release_date)}
        IN IF sat = {}
           THEN /\ pout.kind = "return"
                /\ pout.resp = JsonError("No matching result found in Rotten Tomatoes", 404)
                /\ CallsTo("videos") = {}
           ELSE /\ Cardinality(CallsTo("videos")) = 1
                /\ \A i \in CallsTo("videos") :
                      pout.calls[i].arg =
                          rows[SetMin(sat)].href \o <<"/","v","i","d","e","o","s">>

C9_Witness ==
    /\ GotCandidates
    /\ Len(up.rt[1].rows) = 2
    /\ up.rt[1].rows[1].title = <<"A","b","2">>
    /\ up.rt[1].rows[1].year = <<"2","0","1","0">>
    /\ up.rt[1].rows[2].title = <<"a","B">>
    /\ \E i \in CallsTo("videos") :
          pout.calls[i].arg = Href(2) \o <<"/","v","i","d","e","o","s">>

(***************************************************************************)
(*                  Properties of the cache (Spec)                         *)
(***************************************************************************)
Success(resp) == resp.status = 200 /\ resp.ctype = "json"

\* C1: the cache holds only successful responses; a response that is an error
\* is never written, so no request is answered an error from the cache.
C1_OnlySuccessCached ==
    /\ \A e \in cache : Success(e.rv)
    /\ \A r \in Reqs : (conn[r].pc = "done" /\ conn[r].hit) => Success(conn[r].resp)

\* the latest completed request for key k, 0 when there is none
LastFor(k) ==
    LET done == {i \in DOMAIN order : KeyOf(conn[order[i]]) = k}
    IN IF done = {} THEN 0 ELSE order[SetMax(done)]

\* C3: when a request arrives, and the previous request for the same path and
\* query string succeeded, and the timeout of the entry that request wrote (or
\* was served from) has not run out, the new request gets the same response
\* body at once, with no outbound call.
C3_RepeatServedFromCache ==
    [][\A r \in Reqs :
          (conn[r].pc = "idle" /\ conn'[r].pc # "idle") =>
             LET p == LastFor(KeyOf(conn'[r])) IN
             (p # 0 /\ Success(conn[p].resp) /\ now < conn[p].entryAt + TTL) =>
                 /\ conn'[r].pc = "done"
                 /\ conn'[r].resp = conn[p].resp
                 /\ conn'[r].calls = <<>>
      ]_vars

C3_Witness ==
    \E r1, r2 \in Reqs :
        /\ conn[r1].pc = "done" /\ ~conn[r1].hit /\ Success(conn[r1].resp)
        /\ conn[r2].pc = "done" /\ conn[r2].hit
        /\ KeyOf(conn[r1]) = KeyOf(conn[r2])
        /\ conn[r2].resp = conn[r1].resp /\ conn[r2].calls = <<>>
        /\ conn[r1].calls # <<>>
        /\ order = <<r1, r2>>
        /\ conn[r1].entryAt < now /\ now < conn[r1].entryAt + TTL

\* C10 as claimed: whatever the interleaving, a stored value stays as it is
\* until its timeout has run out; no request's write changes or removes it.
\* Read on successful responses alone, so that the answer does not rest on
\* errors being stored (C1): a stored success is never replaced by another.
C10_EntriesImmutable ==
    [][\A e \in cache :
          Success(e.rv) =>
             \/ now' >= e.at + TTL
             \/ \E f \in cache' : f.key = e.key /\ (Success(f.rv) => f.rv = e.rv)
      ]_vars

\* C10 amended: an entry is dropped only when its timeout has run out, and is
\* replaced only by the write of a request for the same key that had missed
\* the cache before and was still running; no other step touches it.
C10_OnlyConcurrentMissOverwrites ==
    [][\A e \in cache :
          \/ e \in cache'
          \/ now' >= e.at + TTL /\ now' > now
          \/ \E r \in Reqs :
                /\ conn[r].pc = "miss" /\ conn'[r].pc = "done"
                /\ KeyOf(conn[r]) = e.key
                /\ \E f \in cache' : f.key = e.key /\ f.rv = conn'[r].resp
      ]_vars

C10_Witness ==
    \E r1, r2 \in Reqs :
        /\ order = <<r1, r2>>
        /\ ~conn[r1].hit /\ ~conn[r2].hit
        /\ KeyOf(conn[r1]) = KeyOf(conn[r2])
        /\ Success(conn[r1].resp) /\ Success(conn[r2].resp)
        /\ conn[r1].resp # conn[r2].resp
        /\ \E e \in cache : e.key = KeyOf(conn[r2]) /\ e.rv = conn[r2].resp

====
